---- MODULE Spec2Model ----
(***************************************************************************)
(* Model of the stream entry-identifier functions and value codec of       *)
(* src/types/redis_stream_base.cc and of the socket / file helpers of      *)
(* src/common/io_util.cc.                                                  *)
(***************************************************************************)
EXTENDS Integers, Sequences, FiniteSets, TLC

VARIABLES
    \* ---- identifier generator (GetNextStreamEntryID) ----
    last_id,        \* the stream's last entry id, handed to the next call
    given_id,       \* the last_id argument of the latest call
    now_ms,         \* what Util::GetTimeStampMS() returned in the latest call
    new_id,         \* *new_id after the latest call
    gen_status,     \* "none" | "ok" | "err" (kErrLastEntryIdReached)
    prev_issued     \* the id issued by the previous successful call, if any

gen_vars == <<last_id, given_id, now_ms, new_id, gen_status, prev_issued>>

VARIABLES
    \* ---- identifier parsers ----
    holder,         \* which output object the caller owns:
                    \*   "StreamEntryID" | "NewStreamEntryID"
    input,          \* the text of the latest call (a sequence of characters)
    id,             \* the caller's StreamEntryID {ms, seq}
    new_entry,      \* the caller's NewStreamEntryID {ms, seq, any_seq_number}
    before_id,      \* id as it was when the latest call started
    before_new,     \* new_entry as it was when the latest call started
    parser,         \* the function of the latest call, "none" before any
    parse_status    \* "none" | "ok" | "err" (kErrInvalidEntryIdSpecified)

parse_vars == <<holder, input, id, new_entry, before_id, before_new, parser,
                parse_status>>

VARIABLES
    \* ---- value codec ----
    args,           \* the field list given to EncodeStreamEntryValue
    value,          \* the byte string to decode
    origin,         \* "none" | "encoded" (from args) | "raw" (read from storage)
    result,         \* *result of DecodeRawStreamEntryValue
    dec_status      \* "none" | "ok" | "err" (kErrDecodingStreamEntryValueFailure)
                    \*        | "crash" (the process was killed)

codec_vars == <<args, value, origin, result, dec_status>>

VARIABLES
    \* ---- WriteImpl (Write, Pwrite, SockSend) ----
    w_op,           \* "none" | "Write" | "Pwrite" | "SockSend"
    data_size,      \* data.size()
    w_offset,       \* Pwrite's offset argument (0 for the others)
    n,              \* bytes accepted so far
    nwritten,       \* what the latest write / pwrite call returned
    w_errno,        \* errno of the latest failed call, "none" otherwise
    w_arg,          \* the latest call's arguments: buffer position, count,
                    \* file offset
    w_pc,           \* "idle" | "loop" | "done"
    w_status        \* "none" | "ok" | "err"

write_vars == <<w_op, data_size, w_offset, n, nwritten, w_errno, w_arg, w_pc,
                w_status>>

VARIABLES
    \* ---- SockSendFile ----
    total,          \* the size argument as passed in
    in_len,         \* the bytes in_fd really holds
    size,           \* bytes still to transfer
    offset,         \* bytes transferred so far
    sf_ret,         \* what the latest SockSendFileCore call returned
    sf_errno,       \* errno of the latest failed call, "none" otherwise
    sf_last,        \* the latest call: {offset, count, ret, errno}, or {}
    sf_prev,        \* the call before the latest, likewise
    sf_pc,          \* "idle" | "loop" | "done"
    sf_status       \* "none" | "ok" | "err"

sendfile_vars == <<total, in_len, size, offset, sf_ret, sf_errno, sf_last,
                   sf_prev, sf_pc, sf_status>>

VARIABLES
    \* ---- SockConnect(host, port, fd, conn_timeout, timeout) ----
    conn_timeout,   \* the connect deadline in ms, 0 for a blocking connect
    timeout,        \* the receive timeout in ms, 0 for none
    peer,           \* how the remote end answers the connection attempt
    fd,             \* *fd, the caller's descriptor variable
    sock,           \* the socket of this call: "none" | "open" | "closed"
    nonblock,       \* whether O_NONBLOCK is set on the socket
    connect_ret,    \* "none" | "ok" | "EINPROGRESS" | "error"
    retmask,        \* what aeWait returned, as the set of AE_ bits
    addrs,          \* getaddrinfo candidates not tried yet
    fault,          \* the step that failed, "none" if none did
    c_pc,           \* the step to run next
    c_status        \* "none" | "ok" | "err"

connect_vars == <<conn_timeout, timeout, peer, fd, sock, nonblock, connect_ret,
                  retmask, addrs, fault, c_pc, c_status>>

vars == <<gen_vars, parse_vars, codec_vars, write_vars, sendfile_vars,
          connect_vars>>

-----------------------------------------------------------------------------
(* uint64_t, scaled to Width bits.                                          *)

Width == 3

Modulus == 2 ^ Width

UINT64_MAX == Modulus - 1

U64 == 0 .. UINT64_MAX

StreamEntryID == [ms : U64, seq : U64]

MkID(m, s) == [ms |-> m, seq |-> s]

\* The total order of entry ids: (ms, seq), ms most significant.
Less(a, b) == a.ms < b.ms \/ (a.ms = b.ms /\ a.seq < b.seq)

-----------------------------------------------------------------------------
(* redis_stream_base.cc: IncrementStreamEntryID, GetNextStreamEntryID       *)

IncrementNoCarry(eid) ==
    IF eid.seq = UINT64_MAX
    THEN IF eid.ms = UINT64_MAX
         THEN [status |-> "err", id |-> MkID(0, 0)]
         ELSE [status |-> "ok", id |-> MkID(eid.ms, 0)]
    ELSE [status |-> "ok", id |-> MkID(eid.ms, (eid.seq + 1) % Modulus)]

IncrementStreamEntryID(eid) ==
    IF eid.seq = UINT64_MAX
    THEN IF eid.ms = UINT64_MAX
         THEN [status |-> "err", id |-> MkID(0, 0)]
         ELSE [status |-> "ok", id |-> MkID((eid.ms + 1) % Modulus, 0)]
    ELSE [status |-> "ok", id |-> MkID(eid.ms, (eid.seq + 1) % Modulus)]

GetNextAtOrAfter(last, ms) ==
    IF ms >= last.ms
    THEN [status |-> "ok", id |-> MkID(ms, 0)]
    ELSE IncrementStreamEntryID(last)

GetNextStreamEntryID(last, ms) ==
    IF ms > last.ms
    THEN [status |-> "ok", id |-> MkID(ms, 0)]
    ELSE IncrementStreamEntryID(last)

GenStart ==
    /\ last_id \in StreamEntryID
    /\ given_id = last_id
    /\ now_ms = 0
    /\ new_id = MkID(0, 0)
    /\ gen_status = "none"
    /\ prev_issued = {}

\* One auto-id append: the clock is read (any value), the id is generated
\* from the stream's last id, and on success it becomes the last id.
GetNextStreamEntryID_Call ==
    \E ms \in U64 :
        LET r == GetNextStreamEntryID(last_id, ms) IN
        /\ now_ms' = ms
        /\ given_id' = last_id
        /\ new_id' = r.id
        /\ gen_status' = r.status
        /\ last_id' = IF r.status = "ok" THEN r.id ELSE last_id
        /\ prev_issued' = IF gen_status = "ok" THEN {new_id} ELSE prev_issued

GenIdle ==
    /\ last_id = MkID(0, 0)
    /\ given_id = MkID(0, 0)
    /\ now_ms = 0
    /\ new_id = MkID(0, 0)
    /\ gen_status = "none"
    /\ prev_issued = {}

-----------------------------------------------------------------------------
(* Text: a string is a sequence of one-character strings.                   *)

DigitChars == <<"0", "1", "2", "3", "4", "5", "6", "7", "8", "9">>

IsDigit(c) == \E i \in 1 .. Len(DigitChars) : DigitChars[i] = c

DigitVal(c) == (CHOOSE i \in 1 .. Len(DigitChars) : DigitChars[i] = c) - 1

RECURSIVE DecimalValue(_)
DecimalValue(s) ==
    IF s = <<>> THEN 0
    ELSE DecimalValue(SubSeq(s, 1, Len(s) - 1)) * Len(DigitChars) + DigitVal(s[Len(s)])

\* ParseInt<uint64_t>(v, 10) of parse_util.h: succeeds on a non-empty run
\* of decimal digits whose value fits the unsigned type, and on nothing else.
ParseInt(s) ==
    IF s # <<>> /\ (\A i \in 1 .. Len(s) : IsDigit(s[i])) /\ DecimalValue(s) <= UINT64_MAX
    THEN [ok |-> TRUE, value |-> DecimalValue(s)]
    ELSE [ok |-> FALSE, value |-> 0]

\* std::string::find('-'): the first position of the separator, 0 for npos.
FindDash(s) ==
    IF \E i \in 1 .. Len(s) : s[i] = "-"
    THEN CHOOSE i \in 1 .. Len(s) : s[i] = "-" /\ \A j \in 1 .. (i - 1) : s[j] # "-"
    ELSE 0

MsStr(s) == SubSeq(s, 1, FindDash(s) - 1)

SeqStr(s) == SubSeq(s, FindDash(s) + 1, Len(s))

-----------------------------------------------------------------------------
(* redis_stream_base.cc: the identifier parsers.  Each takes the text and   *)
(* the caller's object and gives the status and the object afterwards.      *)

ParseStreamEntryID(in, obj) ==
    IF FindDash(in) # 0
    THEN LET parse_ms == ParseInt(MsStr(in))
             parse_seq == ParseInt(SeqStr(in))
         IN  IF ~parse_ms.ok \/ ~parse_seq.ok
             THEN [status |-> "err", id |-> obj]
             ELSE [status |-> "ok", id |-> MkID(parse_ms.value, parse_seq.value)]
    ELSE LET parse_input == ParseInt(in)
         IN  IF ~parse_input.ok
             THEN [status |-> "err", id |-> obj]
             ELSE [status |-> "ok", id |-> MkID(parse_input.value, 0)]

ParseNewStreamEntryID(in, obj) ==
    IF FindDash(in) # 0
    THEN LET parse_ms == ParseInt(MsStr(in))
             seq_str == SeqStr(in)
         IN  IF ~parse_ms.ok
             THEN [status |-> "err", id |-> obj]
             ELSE LET with_ms == [obj EXCEPT !.ms = parse_ms.value]
                  IN  IF seq_str = <<"*">>
                      THEN [status |-> "ok",
                            id |-> [with_ms EXCEPT !.any_seq_number = TRUE]]
                      ELSE LET parse_seq == ParseInt(seq_str)
                           IN  IF ~parse_seq.ok
                               THEN [status |-> "err", id |-> with_ms]
                               ELSE [status |-> "ok",
                                     id |-> [with_ms EXCEPT !.seq = parse_seq.value]]
    ELSE LET parse_input == ParseInt(in)
         IN  IF ~parse_input.ok
             THEN [status |-> "err", id |-> obj]
             ELSE [status |-> "ok",
                   id |-> [obj EXCEPT !.ms = parse_input.value, !.seq = 0]]

ParseRangeStart(in, obj) == ParseStreamEntryID(in, obj)

ParseRangeEndLikeStart(in, obj) == ParseStreamEntryID(in, obj)

ParseRangeEnd(in, obj) ==
    IF FindDash(in) # 0
    THEN LET parse_ms == ParseInt(MsStr(in))
             parse_seq == ParseInt(SeqStr(in))
         IN  IF ~parse_ms.ok \/ ~parse_seq.ok
             THEN [status |-> "err", id |-> obj]
             ELSE [status |-> "ok", id |-> MkID(parse_ms.value, parse_seq.value)]
    ELSE LET parse_input == ParseInt(in)
         IN  IF ~parse_input.ok
             THEN [status |-> "err", id |-> obj]
             ELSE [status |-> "ok", id |-> MkID(parse_input.value, UINT64_MAX)]

\* The decimal text of n.
RECURSIVE ToDecimal(_)
ToDecimal(num) ==
    IF num < Len(DigitChars) THEN <<DigitChars[num + 1]>>
    ELSE Append(ToDecimal(num \div Len(DigitChars)), DigitChars[(num % Len(DigitChars)) + 1])

\* The ms and seq parts a client may send: empty, valid numbers up to the
\* largest representable one, one past it, and non-numeric text.
Parts ==
    { <<>>, ToDecimal(0), ToDecimal(1), ToDecimal(UINT64_MAX),
      ToDecimal(UINT64_MAX + 1), <<"x">>, <<"*">>, <<"1", "x">> }

Inputs ==
    Parts
    \cup { a \o <<"-">> \o b : a \in Parts, b \in Parts }
    \cup { ToDecimal(1) \o <<"-">> \o ToDecimal(1) \o <<"-">> \o b : b \in Parts }

ParseStart ==
    /\ holder \in {"StreamEntryID", "NewStreamEntryID"}
    /\ input = <<>>
    /\ id = MkID(0, 0)
    /\ new_entry = [ms |-> 0, seq |-> 0, any_seq_number |-> FALSE]
    /\ before_id = id
    /\ before_new = new_entry
    /\ parser = "none"
    /\ parse_status = "none"

ParseIdle ==
    /\ holder = "StreamEntryID"
    /\ input = <<>>
    /\ id = MkID(0, 0)
    /\ new_entry = [ms |-> 0, seq |-> 0, any_seq_number |-> FALSE]
    /\ before_id = id
    /\ before_new = new_entry
    /\ parser = "none"
    /\ parse_status = "none"

\* A call of an exact-id or range parser on the caller's StreamEntryID.
CallOnID(name, r, in) ==
    /\ holder = "StreamEntryID"
    /\ input' = in
    /\ parser' = name
    /\ before_id' = id
    /\ before_new' = new_entry
    /\ id' = r.id
    /\ parse_status' = r.status
    /\ UNCHANGED <<holder, new_entry>>

ParseStreamEntryID_Call ==
    \E in \in Inputs : CallOnID("ParseStreamEntryID", ParseStreamEntryID(in, id), in)

ParseRangeStart_Call ==
    \E in \in Inputs : CallOnID("ParseRangeStart", ParseRangeStart(in, id), in)

ParseRangeEnd_Call ==
    \E in \in Inputs : CallOnID("ParseRangeEnd", ParseRangeEnd(in, id), in)

ParseNewStreamEntryID_Call ==
    \E in \in Inputs :
        LET r == ParseNewStreamEntryID(in, new_entry) IN
        /\ holder = "NewStreamEntryID"
        /\ input' = in
        /\ parser' = "ParseNewStreamEntryID"
        /\ before_id' = id
        /\ before_new' = new_entry
        /\ new_entry' = r.id
        /\ parse_status' = r.status
        /\ UNCHANGED <<holder, id>>

-----------------------------------------------------------------------------
(* Bytes are 0 .. 255.  Varint32 of encoding.h: seven value bits per byte,  *)
(* least significant group first, the top bit set on all but the last byte. *)

RECURSIVE PutVarint32(_)
PutVarint32(v) ==
    IF v < 128 THEN <<v>>
    ELSE <<(v % 128) + 128>> \o PutVarint32(v \div 128)

\* The group of the byte at position i, shifted by 7 * (i - 1) within 32
\* bits: the fifth byte keeps its low four bits.  A value of 2^31 or more
\* (fifth byte with bit 3 set) is given as 2^31 - 1: it is only ever
\* compared with the length of a buffer, which is far shorter.
Group(b, i) ==
    IF i < 5 THEN b * (128 ^ (i - 1))
    ELSE IF b % 16 >= 8 THEN 2147483647 - (128 ^ 4 - 1)
    ELSE (b % 16) * (128 ^ 4)

\* Reads the bytes from position i on; at most five.
RECURSIVE GetVarint32From(_, _, _)
GetVarint32From(s, i, acc) ==
    IF i > 5 \/ i > Len(s)
    THEN [ok |-> FALSE, value |-> 0, rest |-> s]
    ELSE IF s[i] >= 128
         THEN GetVarint32From(s, i + 1, acc + Group(s[i] - 128, i))
         ELSE [ok |-> TRUE,
               value |-> acc + Group(s[i], i),
               rest |-> SubSeq(s, i + 1, Len(s))]

\* GetVarint32(&s, &len): on success the slice s has lost the prefix.
GetVarint32(s) == GetVarint32From(s, 1, 0)

-----------------------------------------------------------------------------
(* redis_stream_base.cc: EncodeStreamEntryValue, DecodeRawStreamEntryValue  *)

RECURSIVE EncodeSkippingEmpty(_)
EncodeSkippingEmpty(a) ==
    IF a = <<>> THEN <<>>
    ELSE (IF Head(a) = <<>> THEN <<>> ELSE PutVarint32(Len(Head(a))) \o Head(a))
         \o EncodeSkippingEmpty(Tail(a))

RECURSIVE EncodeStreamEntryValue(_)
EncodeStreamEntryValue(a) ==
    IF a = <<>> THEN <<>>
    ELSE PutVarint32(Len(Head(a))) \o Head(a) \o EncodeStreamEntryValue(Tail(a))

\* Stands for the bytes that lie behind the end of the buffer: a value no
\* byte of a buffer has.
BeyondBuffer == 255 + 1

\* The outcomes of the decoding loop on the slice s with the elements acc
\* already in *result.  The loop takes len bytes without comparing len to
\* s.size(): with len > s.size() the string constructor reads behind the
\* buffer and remove_prefix leaves the slice with a wrapped-around size
\* (or trips its assertion).  That is undefined behaviour; the process is
\* killed, or the loop runs on into foreign memory until a prefix there
\* fails to parse.
RECURSIVE DecodeLoop(_, _)
DecodeLoop(s, acc) ==
    IF s = <<>> THEN { [status |-> "ok", result |-> acc] }
    ELSE LET g == GetVarint32(s) IN
         IF ~g.ok THEN { [status |-> "err", result |-> acc] }
         ELSE IF g.value <= Len(g.rest)
              THEN DecodeLoop(SubSeq(g.rest, g.value + 1, Len(g.rest)),
                              Append(acc, SubSeq(g.rest, 1, g.value)))
              ELSE { [status |-> "crash", result |-> acc],
                     [status |-> "crash",
                      result |-> Append(acc, Append(g.rest, BeyondBuffer))],
                     [status |-> "err",
                      result |-> Append(acc, Append(g.rest, BeyondBuffer))] }

DecodeRawStreamEntryValue(v) == DecodeLoop(v, <<>>)

\* The elements a client may store: empty, bytes that read as length
\* prefixes, and one long enough to need a two-byte prefix.
LongElement == [i \in 1 .. 130 |-> 97]

Elements == { <<>>, <<0>>, <<1>>, <<2, 97>>, <<128, 1>>, LongElement }

MaxFields == 3

RECURSIVE ListsUpTo(_)
ListsUpTo(len) ==
    IF len = 0 THEN { <<>> }
    ELSE ListsUpTo(len - 1)
         \cup { Append(l, e) : l \in { x \in ListsUpTo(len - 1) : Len(x) = len - 1 },
                               e \in Elements }

FieldLists == ListsUpTo(MaxFields)

\* The byte strings storage may hand back, well-formed or not.
RawBytes == {0, 1, 2, 97, 128}

MaxRaw == 3

RECURSIVE BuffersUpTo(_)
BuffersUpTo(len) ==
    IF len = 0 THEN { <<>> }
    ELSE BuffersUpTo(len - 1)
         \cup { Append(b, x) : b \in { y \in BuffersUpTo(len - 1) : Len(y) = len - 1 },
                               x \in RawBytes }

RawValues == BuffersUpTo(MaxRaw)

CodecIdle ==
    /\ args = <<>>
    /\ value = <<>>
    /\ origin = "none"
    /\ result = <<>>
    /\ dec_status = "none"

CodecStart == CodecIdle

\* A write command encodes the fields of the entry it appends.
EncodeStreamEntryValue_Call ==
    \E a \in FieldLists :
        /\ origin = "none"
        /\ args' = a
        /\ value' = EncodeStreamEntryValue(a)
        /\ origin' = "encoded"
        /\ result' = <<>>
        /\ dec_status' = "none"

\* The storage collaborator supplies a stored byte string.
ReadStoredValue ==
    \E v \in RawValues :
        /\ origin = "none"
        /\ args' = <<>>
        /\ value' = v
        /\ origin' = "raw"
        /\ result' = <<>>
        /\ dec_status' = "none"

DecodeRawStreamEntryValue_Call ==
    /\ origin # "none"
    /\ dec_status = "none"
    /\ \E o \in DecodeRawStreamEntryValue(value) :
           /\ result' = o.result
           /\ dec_status' = o.status
    /\ UNCHANGED <<args, value, origin>>

-----------------------------------------------------------------------------
(* io_util.cc: WriteImpl, instantiated by Write, Pwrite and SockSend.       *)

MaxData == 4

WriteIdle ==
    /\ w_op = "none"
    /\ data_size = 0
    /\ w_offset = 0
    /\ n = 0
    /\ nwritten = 0
    /\ w_errno = "none"
    /\ w_arg = {}
    /\ w_pc = "idle"
    /\ w_status = "none"

WriteStart == WriteIdle

\* Entry: ssize_t n = 0.
WriteImpl_Enter(op, len, off) ==
    /\ w_pc \in {"idle", "done"}
    /\ w_op' = op
    /\ data_size' = len
    /\ w_offset' = off
    /\ n' = 0
    /\ nwritten' = 0
    /\ w_errno' = "none"
    /\ w_arg' = {}
    /\ w_pc' = "loop"
    /\ w_status' = "none"

Write_Call == \E len \in 0 .. MaxData : WriteImpl_Enter("Write", len, 0)

Pwrite_Call ==
    \E len \in 0 .. MaxData, off \in {0, 1} : WriteImpl_Enter("Pwrite", len, off)

SockSend_Call == \E len \in 0 .. MaxData : WriteImpl_Enter("SockSend", len, 0)

\* The arguments of the call in the loop body: data.data() + n,
\* data.size() - n and, for pwrite, the offset as passed in.
SyscallArgs == [from |-> n, count |-> data_size - n, off |-> w_offset]

\* The call accepts some of the bytes offered: n += nwritten.
WriteImpl_Accepted ==
    /\ w_pc = "loop"
    /\ n < data_size
    /\ \E k \in 1 .. (data_size - n) :
           /\ nwritten' = k
           /\ n' = n + k
    /\ w_arg' = {SyscallArgs}
    /\ w_errno' = "none"
    /\ UNCHANGED <<w_op, data_size, w_offset, w_pc, w_status>>

\* The call fails: nwritten == -1 returns Status::FromErrno().
WriteImpl_Failed ==
    /\ w_pc = "loop"
    /\ n < data_size
    /\ \E e \in {"EINTR", "EIO"} :
           /\ w_errno' = e
    /\ nwritten' = 0 - 1
    /\ w_arg' = {SyscallArgs}
    /\ w_pc' = "done"
    /\ w_status' = "err"
    /\ UNCHANGED <<w_op, data_size, w_offset, n>>

\* The loop condition fails: return Status::OK().
WriteImpl_Return ==
    /\ w_pc = "loop"
    /\ ~(n < data_size)
    /\ w_pc' = "done"
    /\ w_status' = "ok"
    /\ UNCHANGED <<w_op, data_size, w_offset, n, nwritten, w_errno, w_arg>>

-----------------------------------------------------------------------------
(* io_util.cc: SockSendFile over SockSendFileCore (sendfile).               *)

SendFileChunk == 16 * 1024

\* What a transfer moves when the socket takes less than was asked.
ShortTransfer == 4 * 1024

Min(a, b) == IF a < b THEN a ELSE b

TransferSizes == {0, 1, SendFileChunk, SendFileChunk + 1, 2 * SendFileChunk + 1}

SendFileIdle ==
    /\ total = 0
    /\ in_len = 0
    /\ size = 0
    /\ offset = 0
    /\ sf_ret = 0
    /\ sf_errno = "none"
    /\ sf_last = {}
    /\ sf_prev = {}
    /\ sf_pc = "idle"
    /\ sf_status = "none"

SendFileStart == SendFileIdle

\* Entry.  The file holds the size asked for, or has lost its tail.
SockSendFile_Call ==
    /\ sf_pc \in {"idle", "done"}
    /\ \E sz \in TransferSizes :
           /\ total' = sz
           /\ size' = sz
           /\ in_len' \in {sz} \cup {l \in {0, sz - 1, SendFileChunk} : 0 <= l /\ l < sz}
    /\ offset' = 0
    /\ sf_ret' = 0
    /\ sf_errno' = "none"
    /\ sf_last' = {}
    /\ sf_prev' = {}
    /\ sf_pc' = "loop"
    /\ sf_status' = "none"

\* size_t n = size <= 16 * 1024 ? size : 16 * 1024
ChunkOf(sz) == IF sz <= SendFileChunk THEN sz ELSE SendFileChunk

\* sendfile(out_fd, in_fd, &offset, count) succeeding: it moves what the
\* file still holds from offset on, at most count, possibly less; 0 at the
\* end of the file.
SendFileResults(off, count) ==
    LET avail == IF in_len > off THEN Min(count, in_len - off) ELSE 0
    IN  {avail, Min(avail, ShortTransfer)}

\* The call transfers: size -= nwritten; offset += nwritten.
SockSendFile_Transferred ==
    /\ sf_pc = "loop"
    /\ size # 0
    /\ \E r \in SendFileResults(offset, ChunkOf(size)) :
           /\ sf_ret' = r
           /\ size' = size - r
           /\ offset' = offset + r
           /\ sf_last' = {[offset |-> offset, count |-> ChunkOf(size),
                           ret |-> r, errno |-> "none"]}
    /\ sf_prev' = sf_last
    /\ sf_errno' = "none"
    /\ UNCHANGED <<total, in_len, sf_pc, sf_status>>

\* The call fails: continue on EINTR, return the error otherwise.
SockSendFile_Failed ==
    /\ sf_pc = "loop"
    /\ size # 0
    /\ \E e \in {"EINTR", "EPIPE"} :
           /\ sf_errno' = e
           /\ sf_last' = {[offset |-> offset, count |-> ChunkOf(size),
                           ret |-> 0 - 1, errno |-> e]}
           /\ IF e = "EINTR"
              THEN sf_pc' = "loop" /\ sf_status' = "none"
              ELSE sf_pc' = "done" /\ sf_status' = "err"
    /\ sf_ret' = 0 - 1
    /\ sf_prev' = sf_last
    /\ UNCHANGED <<total, in_len, size, offset>>

\* size == 0: return Status::OK().
SockSendFile_Return ==
    /\ sf_pc = "loop"
    /\ size = 0
    /\ sf_pc' = "done"
    /\ sf_status' = "ok"
    /\ UNCHANGED <<total, in_len, size, offset, sf_ret, sf_errno, sf_last, sf_prev>>

-----------------------------------------------------------------------------
(* io_util.cc: aeWait and the two SockConnect overloads.                    *)

\* Descriptors by name: the null descriptor and the one socket() hands out.
NullFD == "NullFD"

SockFD == "sockfd"

AE_BITS == {"AE_READABLE", "AE_WRITABLE", "AE_ERROR", "AE_HUP"}

\* aeWait(fd, AE_WRITABLE, ms) given what poll() did: retval 1 with the
\* revents, 0 for a timeout, -1 for an error.  With retval 1 the bits are
\* translated; otherwise retval itself is returned, and -1 has every bit set.
aeWait(retval, revents) ==
    IF retval = 1
    THEN   (IF "POLLIN" \in revents THEN {"AE_READABLE"} ELSE {})
      \cup (IF "POLLOUT" \in revents THEN {"AE_WRITABLE"} ELSE {})
      \cup (IF "POLLERR" \in revents THEN {"AE_ERROR"} ELSE {})
      \cup (IF "POLLHUP" \in revents THEN {"AE_HUP"} ELSE {})
    ELSE IF retval = 0 THEN {} ELSE AE_BITS

\* What poll() may report for a socket polled for POLLOUT.
PollResults ==
    { [retval |-> 1, revents |-> r] :
          r \in (SUBSET {"POLLOUT", "POLLERR", "POLLHUP"}) \ {{}} }
    \cup { [retval |-> 0, revents |-> {}], [retval |-> 0 - 1, revents |-> {}] }

MaxAddrs == 2

Timeouts == {0, 1000}

\* The remote end: it completes the handshake before connect() returns, or
\* later but within conn_timeout, or after it, or refuses, or is unreachable.
Peers == {"at_once", "in_time", "late", "refuses", "unreachable"}

ConnectIdle ==
    /\ conn_timeout = 0
    /\ timeout = 0
    /\ peer = "at_once"
    /\ fd = NullFD
    /\ sock = "none"
    /\ nonblock = FALSE
    /\ connect_ret = "none"
    /\ retmask = {}
    /\ addrs = 0
    /\ fault = "none"
    /\ c_pc = "idle"
    /\ c_status = "none"

ConnectStart == ConnectIdle

\* The scope-exit handler and the error return: close(*fd); *fd = NullFD.
FailAndClose(step) ==
    /\ fault' = step
    /\ sock' = "closed"
    /\ fd' = NullFD
    /\ c_pc' = "done"
    /\ c_status' = "err"

\* Entry.  The caller's descriptor variable holds NullFD.
SockConnect_Call ==
    /\ c_pc \in {"idle", "done"}
    /\ conn_timeout' \in Timeouts
    /\ timeout' \in Timeouts
    /\ peer' \in Peers
    /\ fd' = NullFD
    /\ sock' = "none"
    /\ nonblock' = FALSE
    /\ connect_ret' = "none"
    /\ retmask' = {}
    /\ addrs' = 0
    /\ fault' = "none"
    /\ c_pc' = IF conn_timeout' = 0 THEN "getaddrinfo" ELSE "socket"
    /\ c_status' = "none"

\* conn_timeout == 0: SockConnect(host, port, fd) resolves the host; a
\* failure returns before the scope-exit handler exists.
Plain_GetAddrInfo ==
    /\ c_pc = "getaddrinfo"
    /\ \/ /\ addrs' \in 0 .. MaxAddrs
          /\ c_pc' = "try"
          /\ UNCHANGED <<fault, c_status>>
       \/ /\ fault' = "getaddrinfo"
          /\ c_pc' = "done"
          /\ c_status' = "err"
          /\ UNCHANGED addrs
    /\ UNCHANGED <<conn_timeout, timeout, peer, fd, sock, nonblock, connect_ret,
                   retmask>>

\* One candidate: socket, blocking connect, keepalive, no-delay.  A failure
\* moves on to the next candidate, the UniqueFD closing the socket.
Plain_TryAddress ==
    /\ c_pc = "try"
    /\ addrs > 0
    /\ \/ /\ peer \in {"at_once", "in_time", "late"}
          /\ fd' = SockFD
          /\ sock' = "open"
          /\ connect_ret' = "ok"
          /\ c_pc' = "rcvtimeo"
          /\ UNCHANGED addrs
       \/ /\ addrs' = addrs - 1
          /\ connect_ret' = "error"
          /\ UNCHANGED <<fd, sock, c_pc>>
    /\ UNCHANGED <<conn_timeout, timeout, peer, nonblock, retmask, fault, c_status>>

\* No candidate is left: return Status::FromErrno(), *fd untouched.
Plain_Exhausted ==
    /\ c_pc = "try"
    /\ addrs = 0
    /\ fault' = "connect"
    /\ c_pc' = "done"
    /\ c_status' = "err"
    /\ UNCHANGED <<conn_timeout, timeout, peer, fd, sock, nonblock, connect_ret,
                   retmask, addrs>>

\* conn_timeout != 0: *fd = socket(AF_INET, SOCK_STREAM, 0); a failure
\* returns with *fd == NullFD.
Timed_Socket ==
    /\ c_pc = "socket"
    /\ \/ /\ fd' = SockFD
          /\ sock' = "open"
          /\ c_pc' = "connect"
          /\ UNCHANGED <<fault, c_status>>
       \/ /\ fd' = NullFD
          /\ fault' = "socket"
          /\ c_pc' = "done"
          /\ c_status' = "err"
          /\ UNCHANGED sock
    /\ UNCHANGED <<conn_timeout, timeout, peer, nonblock, connect_ret, retmask,
                   addrs>>

\* What connect() returns on the non-blocking socket.
NonBlockingConnect(p) ==
    IF p = "at_once" THEN {"ok"}
    ELSE IF p \in {"in_time", "late"} THEN {"EINPROGRESS"}
    ELSE IF p = "refuses" THEN {"EINPROGRESS", "error"}
    ELSE {"error"}

\* fcntl(O_NONBLOCK), then connect(): any non-zero return is an error.
Timed_Connect ==
    /\ c_pc = "connect"
    /\ nonblock' = TRUE
    /\ \E r \in NonBlockingConnect(peer) :
           /\ connect_ret' = r
           /\ IF r # "ok"
              THEN FailAndClose("connect")
              ELSE c_pc' = "wait" /\ UNCHANGED <<fault, sock, fd, c_status>>
    /\ UNCHANGED <<conn_timeout, timeout, peer, retmask, addrs>>

\* aeWait for writability; not writable, error or hang-up is an error.
Timed_Wait ==
    /\ c_pc = "wait"
    /\ \E p \in PollResults :
           LET m == aeWait(p.retval, p.revents) IN
           /\ retmask' = m
           /\ IF "AE_WRITABLE" \notin m \/ "AE_ERROR" \in m \/ "AE_HUP" \in m
              THEN FailAndClose("wait")
              ELSE c_pc' = "blocking" /\ UNCHANGED <<fault, sock, fd, c_status>>
    /\ UNCHANGED <<conn_timeout, timeout, peer, nonblock, connect_ret, addrs>>

\* fcntl(F_GETFL), fcntl(F_SETFL, arg & ~O_NONBLOCK), SockSetTcpNoDelay.
Timed_Restore ==
    /\ c_pc = "blocking"
    /\ \/ /\ nonblock' = FALSE
          /\ c_pc' = "rcvtimeo"
          /\ UNCHANGED <<fault, sock, fd, c_status>>
       \/ /\ FailAndClose("F_GETFL")
          /\ UNCHANGED nonblock
       \/ /\ FailAndClose("F_SETFL")
          /\ UNCHANGED nonblock
       \/ /\ nonblock' = FALSE
          /\ FailAndClose("TCP_NODELAY")
    /\ UNCHANGED <<conn_timeout, timeout, peer, connect_ret, retmask, addrs>>

\* timeout > 0: setsockopt(SO_RCVTIMEO); then exit.Disable() and OK.
SockConnect_Finish ==
    /\ c_pc = "rcvtimeo"
    /\ \/ /\ c_pc' = "done"
          /\ c_status' = "ok"
          /\ UNCHANGED <<fault, sock, fd>>
       \/ /\ timeout > 0
          /\ FailAndClose("SO_RCVTIMEO")
    /\ UNCHANGED <<conn_timeout, timeout, peer, nonblock, connect_ret, retmask,
                   addrs>>

-----------------------------------------------------------------------------
(* Specifications, one per component.                                       *)

GenNext ==
    GetNextStreamEntryID_Call
        /\ UNCHANGED <<parse_vars, codec_vars, write_vars, sendfile_vars, connect_vars>>

GenInit ==
    /\ GenStart
    /\ ParseIdle
    /\ CodecIdle
    /\ WriteIdle
    /\ SendFileIdle
    /\ ConnectIdle

SpecGen == GenInit /\ [][GenNext]_vars

ParseOthers == <<gen_vars, codec_vars, write_vars, sendfile_vars, connect_vars>>

ParseNext ==
    \/ ParseStreamEntryID_Call /\ UNCHANGED ParseOthers
    \/ ParseNewStreamEntryID_Call /\ UNCHANGED ParseOthers
    \/ ParseRangeStart_Call /\ UNCHANGED ParseOthers
    \/ ParseRangeEnd_Call /\ UNCHANGED ParseOthers

ParseInit ==
    /\ GenIdle
    /\ ParseStart
    /\ CodecIdle
    /\ WriteIdle
    /\ SendFileIdle
    /\ ConnectIdle

SpecParse == ParseInit /\ [][ParseNext]_vars

CodecOthers == <<gen_vars, parse_vars, write_vars, sendfile_vars, connect_vars>>

CodecNext ==
    \/ EncodeStreamEntryValue_Call /\ UNCHANGED CodecOthers
    \/ ReadStoredValue /\ UNCHANGED CodecOthers
    \/ DecodeRawStreamEntryValue_Call /\ UNCHANGED CodecOthers

CodecInit ==
    /\ GenIdle
    /\ ParseIdle
    /\ CodecStart
    /\ WriteIdle
    /\ SendFileIdle
    /\ ConnectIdle

SpecCodec == CodecInit /\ [][CodecNext]_vars

WriteOthers == <<gen_vars, parse_vars, codec_vars, sendfile_vars, connect_vars>>

WriteNext ==
    \/ Write_Call /\ UNCHANGED WriteOthers
    \/ Pwrite_Call /\ UNCHANGED WriteOthers
    \/ SockSend_Call /\ UNCHANGED WriteOthers
    \/ WriteImpl_Accepted /\ UNCHANGED WriteOthers
    \/ WriteImpl_Failed /\ UNCHANGED WriteOthers
    \/ WriteImpl_Return /\ UNCHANGED WriteOthers

WriteInit ==
    /\ GenIdle
    /\ ParseIdle
    /\ CodecIdle
    /\ WriteStart
    /\ SendFileIdle
    /\ ConnectIdle

SpecWrite == WriteInit /\ [][WriteNext]_vars

SendFileOthers == <<gen_vars, parse_vars, codec_vars, write_vars, connect_vars>>

SendFileNext ==
    \/ SockSendFile_Call /\ UNCHANGED SendFileOthers
    \/ SockSendFile_Transferred /\ UNCHANGED SendFileOthers
    \/ SockSendFile_Failed /\ UNCHANGED SendFileOthers
    \/ SockSendFile_Return /\ UNCHANGED SendFileOthers

SendFileInit ==
    /\ GenIdle
    /\ ParseIdle
    /\ CodecIdle
    /\ WriteIdle
    /\ SendFileStart
    /\ ConnectIdle

SpecSendFile == SendFileInit /\ [][SendFileNext]_vars

ConnectOthers == <<gen_vars, parse_vars, codec_vars, write_vars, sendfile_vars>>

ConnectNext ==
    \/ SockConnect_Call /\ UNCHANGED ConnectOthers
    \/ Plain_GetAddrInfo /\ UNCHANGED ConnectOthers
    \/ Plain_TryAddress /\ UNCHANGED ConnectOthers
    \/ Plain_Exhausted /\ UNCHANGED ConnectOthers
    \/ Timed_Socket /\ UNCHANGED ConnectOthers
    \/ Timed_Connect /\ UNCHANGED ConnectOthers
    \/ Timed_Wait /\ UNCHANGED ConnectOthers
    \/ Timed_Restore /\ UNCHANGED ConnectOthers
    \/ SockConnect_Finish /\ UNCHANGED ConnectOthers

ConnectInit ==
    /\ GenIdle
    /\ ParseIdle
    /\ CodecIdle
    /\ WriteIdle
    /\ SendFileIdle
    /\ ConnectStart

SpecConnect == ConnectInit /\ [][ConnectNext]_vars

-----------------------------------------------------------------------------
(* The claims.                                                              *)

\* C1: every successfully returned id is strictly greater, in (ms, seq)
\* order, than the last_id the call was given and than the id issued by the
\* previous successful call, whatever the clock read.
C1_StrictlyIncreasing ==
    gen_status = "ok" =>
        /\ Less(given_id, new_id)
        /\ \A p \in prev_issued : Less(p, new_id)

\* A second id was issued although the clock went backwards.
C1_Witness ==
    /\ gen_status = "ok"
    /\ prev_issued # {}
    /\ now_ms < given_id.ms

\* C4: the result is (now, 0) when now > last.ms; otherwise it is the
\* immediate successor of last, and the call fails exactly when last is
\* (UINT64_MAX, UINT64_MAX).
C4_NextIsNowOrSuccessor ==
    gen_status # "none" =>
        IF now_ms > given_id.ms
        THEN gen_status = "ok" /\ new_id = MkID(now_ms, 0)
        ELSE /\ (gen_status = "err") <=> (given_id = MkID(UINT64_MAX, UINT64_MAX))
             /\ gen_status = "ok" =>
                    /\ given_id.seq < UINT64_MAX =>
                           new_id = MkID(given_id.ms, given_id.seq + 1)
                    /\ given_id.seq = UINT64_MAX =>
                           new_id = MkID(given_id.ms + 1, 0)
                    /\ ~ \E x \in StreamEntryID :
                           Less(given_id, x) /\ Less(x, new_id)

\* The sequence number overflowed into the millisecond part.
C4_Witness ==
    /\ gen_status = "ok"
    /\ now_ms <= given_id.ms
    /\ given_id.seq = UINT64_MAX
    /\ new_id.seq = 0

\* The input forms of an identifier.
IsBare(in) == FindDash(in) = 0 /\ ParseInt(in).ok

IsMsSeq(in) == FindDash(in) # 0 /\ ParseInt(MsStr(in)).ok /\ ParseInt(SeqStr(in)).ok

IsMsStar(in) == FindDash(in) # 0 /\ ParseInt(MsStr(in)).ok /\ SeqStr(in) = <<"*">>

\* C5: a parser that fails with the invalid-stream-ID error leaves the
\* caller's output identifier exactly as it was before the call.
C5_FailureLeavesOutputUntouched ==
    parse_status = "err" => id = before_id /\ new_entry = before_new

\* C6: after a successful ParseNewStreamEntryID, any_seq_number is true
\* exactly for `ms-*` input, a bare `ms` gives {ms, 0, false} and `ms-seq`
\* gives {ms, seq, false}; the other parsers reject `ms-*`.
C6_AnySeqNumberIffStar ==
    /\ (parser = "ParseNewStreamEntryID" /\ parse_status = "ok") =>
           /\ new_entry.any_seq_number <=> IsMsStar(input)
           /\ IsBare(input) =>
                  new_entry = [ms |-> ParseInt(input).value, seq |-> 0,
                               any_seq_number |-> FALSE]
           /\ IsMsSeq(input) =>
                  new_entry = [ms |-> ParseInt(MsStr(input)).value,
                               seq |-> ParseInt(SeqStr(input)).value,
                               any_seq_number |-> FALSE]
    /\ (parser \notin {"none", "ParseNewStreamEntryID"} /\ IsMsStar(input)) =>
           parse_status = "err"

\* C7: for bare text m, ParseRangeStart gives (m, 0), no id of millisecond
\* m below it and every id of an earlier millisecond below it;
\* ParseRangeEnd gives (m, UINT64_MAX), no id of millisecond m above it and
\* every id of a later millisecond above it; `ms-seq` gives (ms, seq).
C7_RangeBounds ==
    /\ (parser = "ParseRangeStart" /\ IsBare(input)) =>
           /\ parse_status = "ok"
           /\ id = MkID(ParseInt(input).value, 0)
           /\ \A x \in StreamEntryID :
                  /\ x.ms = id.ms => ~Less(x, id)
                  /\ x.ms # id.ms => (Less(x, id) <=> x.ms < id.ms)
    /\ (parser = "ParseRangeEnd" /\ IsBare(input)) =>
           /\ parse_status = "ok"
           /\ id = MkID(ParseInt(input).value, UINT64_MAX)
           /\ \A x \in StreamEntryID :
                  /\ x.ms = id.ms => ~Less(id, x)
                  /\ x.ms # id.ms => (Less(id, x) <=> x.ms > id.ms)
    /\ (parser \in {"ParseRangeStart", "ParseRangeEnd"} /\ IsMsSeq(input)) =>
           /\ parse_status = "ok"
           /\ id = MkID(ParseInt(MsStr(input)).value, ParseInt(SeqStr(input)).value)

\* ParseRangeEnd has parsed a bare millisecond that is not the largest one.
C7_Witness ==
    /\ parser = "ParseRangeEnd"
    /\ IsBare(input)
    /\ parse_status = "ok"
    /\ id.ms = 1
    /\ id.seq = UINT64_MAX
    /\ before_id.seq # UINT64_MAX

\* Reading v from the front, some length prefix cannot be read in full or
\* declares more bytes than follow it.
RECURSIVE Malformed(_)
Malformed(v) ==
    /\ v # <<>>
    /\ LET g == GetVarint32(v) IN
       \/ ~g.ok
       \/ g.value > Len(g.rest)
       \/ Malformed(SubSeq(g.rest, g.value + 1, Len(g.rest)))

\* C2: decoding a buffer with an unreadable or unsatisfiable length prefix
\* fails with the decode error, and success is never returned with an
\* element that reaches past the end of the buffer.
C2_MalformedBufferFailsDecode ==
    dec_status # "none" =>
        /\ Malformed(value) => dec_status = "err"
        /\ dec_status = "ok" =>
               \A i \in 1 .. Len(result) :
                   \A k \in 1 .. Len(result[i]) : result[i][k] # BeyondBuffer

\* C3: decoding what EncodeStreamEntryValue produced succeeds and gives
\* back the encoded list: as many elements, in order, with the same bytes.
C3_DecodeEncodeRoundTrip ==
    (origin = "encoded" /\ dec_status # "none") =>
        /\ dec_status = "ok"
        /\ Len(result) = Len(args)
        /\ \A i \in 1 .. Len(args) : result[i] = args[i]

\* A list with an empty element, an element that reads as a length prefix
\* and an element with a two-byte prefix has been encoded and decoded.
C3_Witness ==
    /\ origin = "encoded"
    /\ dec_status = "ok"
    /\ \E i \in 1 .. Len(args) : args[i] = <<>>
    /\ \E i \in 1 .. Len(args) : args[i] = <<128, 1>>
    /\ \E i \in 1 .. Len(args) : Len(args[i]) > 127

\* C8: with conn_timeout != 0, a connect attempt still in progress when
\* connect() returns, whose socket becomes writable within the timeout,
\* ends in success with the descriptor in blocking mode; every error return
\* leaves the socket closed and *fd the null descriptor.
C8_ConnectInProgressThenWritableSucceeds ==
    (c_pc = "done" /\ conn_timeout # 0) =>
        /\ ( /\ peer = "in_time"
             /\ connect_ret = "EINPROGRESS"
             /\ fault \notin {"socket", "F_GETFL", "F_SETFL", "TCP_NODELAY",
                              "SO_RCVTIMEO"} )
           => (c_status = "ok" /\ sock = "open" /\ fd # NullFD /\ ~nonblock)
        /\ c_status = "err" => (sock # "open" /\ fd = NullFD)

\* C9: an interrupted write call is retried and never returned as an
\* error; success is returned only once the accepted counts add up to the
\* buffer length, each call starting at the first unaccepted byte; any
\* other failure is returned at once.
C9_InterruptedWriteIsRetried ==
    /\ w_errno = "EINTR" => w_status # "err"
    /\ w_status = "ok" => n = data_size
    /\ \A a \in w_arg : a.from + a.count = data_size
    /\ (nwritten = 0 - 1 /\ w_errno # "EINTR") => w_status = "err"

\* C10: every transfer call asks for min(remaining, 16 KiB) at the offset
\* already transferred; a call is issued again with the same offset and
\* count only after it failed with EINTR; any other error is returned at
\* once; success is returned only when exactly `size` bytes were moved.
C10_SendFileReissuesOnlyAfterEINTR ==
    /\ \A c \in sf_last :
           /\ c.count = Min(total - c.offset, SendFileChunk)
           /\ \A q \in sf_prev :
                  (q.offset = c.offset /\ q.count = c.count) =>
                      (q.ret = 0 - 1 /\ q.errno = "EINTR")
    /\ (sf_ret = 0 - 1 /\ sf_errno # "EINTR") => sf_status = "err"
    /\ sf_status = "ok" => offset = total

====
